---- MODULE Spec2Model ----
(***************************************************************************)
(* Vigil - Brain (src/core/brain.py): the multi-provider response          *)
(* orchestrator.  State: the conversation history, the response cache and  *)
(* the three provider handles.  Operations: add_to_history, clear_history, *)
(* think (cache check, provider fallback) and trinity_mode (one worker     *)
(* thread per available provider, then a synthesis call).                  *)
(*                                                                         *)
(* Python's Optional[T] is modelled as a sequence: <<>> is None and <<x>>  *)
(* is the value x.  The insertion-ordered dict _response_cache is a        *)
(* sequence of [key, val] records with pairwise distinct keys, oldest      *)
(* insertion first.                                                        *)
(*                                                                         *)
(* The Brain's collaborators each have a specification of their own:       *)
(* Memory's debounced save (src/core/memory.py), the WakeWordListener      *)
(* (src/core/listener.py), the reflection scheduler                        *)
(* (src/reflection/daily_reflection.py) and the KnowledgeBase              *)
(* (src/knowledge/knowledge_base.py).                                      *)
(***************************************************************************)
EXTENDS Integers, Sequences, FiniteSets, TLC

VARIABLES
    openai_client,         \* TRUE iff self.openai_client is not None
    anthropic_client,      \* TRUE iff self.anthropic_client is not None
    poe_available,         \* self.poe_available
    conversation_history,  \* self.conversation_history
    response_cache,        \* self._response_cache
    tri,                   \* the frame of the trinity_mode call in progress
    left,                  \* public calls the caller still makes
    ret,                   \* what the last public call did and returned
    prev,                  \* the same for the call before it
    callers,               \* the application threads that call brain.think
    memory,                \* Memory: the debounced save of profile and log
    listener,              \* WakeWordListener: its listen loop threads
    scheduler,             \* ReflectionSystem: its scheduler loop threads
    knowledge              \* KnowledgeBase: the entries and the two indexes

\* the collaborators of the Brain
Collaborators == <<memory, listener, scheduler, knowledge>>

\* the Brain and the threads that call it
BrainState == <<openai_client, anthropic_client, poe_available,
                conversation_history, response_cache, tri, left, ret, prev,
                callers>>

vars == <<BrainState, Collaborators>>

-----------------------------------------------------------------------------
(* Program constants                                                       *)

CACHE_HISTORY_THRESHOLD == 10
MAX_RESPONSE_CACHE_SIZE == 50
max_messages == 40
SCHEDULER_SLEEP == 10      \* time.sleep(10) in _scheduler_loop
SCHEDULER_JOIN_TIMEOUT == 2  \* join(timeout=2) in stop_scheduler
REFLECTION_TIME == 0       \* the reflection time, midnight: second 0 of the day

(* Bounds of the model                                                     *)

MaxOps == 2          \* public calls per behaviour without trinity_mode
MaxCalls == 1        \* public calls per behaviour with trinity_mode
MaxStarts == 2       \* think calls the application threads start per behaviour
UsageTokens == 7     \* the token count a provider reports for a fresh answer
MaxMarks == 3        \* marking calls on Memory per behaviour
MaxListenerCalls == 3  \* start, stop and restart calls on the listener
MaxSchedulerCalls == 3 \* start_scheduler and stop_scheduler calls
DayLength == 20      \* seconds in a day of the model, a multiple of ten as 86400 is
MaxDays == 2         \* days the clock of the model runs through
MaxKnowledgeCalls == 3  \* add_entry, update_entry and delete_entry calls
MaxSeconds == 2      \* seconds the KnowledgeBase's clock runs through

-----------------------------------------------------------------------------
(* Values                                                                  *)

None == <<>>
Some(x) == <<x>>

OPENAI == "openai"
ANTHROPIC == "anthropic"
POE == "poe"
Provider == {OPENAI, ANTHROPIC, POE}

PRIMARY_MODEL == "PRIMARY_MODEL"
CLAUDE_MODEL == "CLAUDE_MODEL"
GEMINI_MODEL == "GEMINI_MODEL"

Message(role, content) == [role |-> role, content |-> content]

LLMResponse(text, provider, model, tokens_used, cached) ==
    [text |-> text, provider |-> provider, model |-> model,
     tokens_used |-> tokens_used, cached |-> cached]

\* The prompts callers submit, and Python's hash() of each.  hash("") is 0 in
\* every CPython process; the other values are fixed within one process.
EmptyPrompt == ""
Prompts == {EmptyPrompt, "ping"}

hash(prompt) ==
    CASE prompt = EmptyPrompt -> 0
      [] prompt = "ping" -> 11
      [] prompt = "hello" -> 21
      [] prompt = "wake" -> 22
      [] prompt = "reflect" -> 31
      [] OTHER -> 12

\* What a provider's API call can do: raise, or return a text (possibly empty).
\* Loading fastapi_poe can also fail with ImportError.
ERROR == "#raise Exception"
IMPORT_ERROR == "#raise ImportError"
Answers == {"", "pong"}
Outcomes(p) == {ERROR} \cup Answers \cup (IF p = POE THEN {IMPORT_ERROR} ELSE {})

\* Python truthiness of an Optional[int], an Optional[str] and an Optional[object].
TruthyInt(o) == o # None /\ o[1] # 0
TruthyStr(o) == o # None /\ o[1] # ""
TruthyObj(o) == o # None

-----------------------------------------------------------------------------
(* dict operations on the insertion-ordered cache                          *)

DictKeys(d) == {d[i].key : i \in 1..Len(d)}

DictGet(d, k) ==
    IF k \in DictKeys(d)
    THEN Some(d[CHOOSE i \in 1..Len(d) : d[i].key = k].val)
    ELSE None

\* d[k] = v: a present key keeps its place and takes the new value, a new key
\* goes last.
DictSet(d, k, v) ==
    IF k \in DictKeys(d)
    THEN [i \in 1..Len(d) |-> IF d[i].key = k THEN [key |-> k, val |-> v] ELSE d[i]]
    ELSE Append(d, [key |-> k, val |-> v])

\* a faulty DictPopFirst: pops the entry inserted last
DictPopLast(d) == SubSeq(d, 1, Len(d) - 1)

\* d.pop(next(iter(d)))
DictPopFirst(d) == Tail(d)

-----------------------------------------------------------------------------
(* Brain: cache and history helpers.  self is the record of the object's   *)
(* fields; each method is an operator from self (and its arguments) to the *)
(* new self and what it returns.                                           *)

Self ==
    [openai_client |-> openai_client, anthropic_client |-> anthropic_client,
     poe_available |-> poe_available,
     conversation_history |-> conversation_history,
     response_cache |-> response_cache]

\* a faulty cache_key: the key depends on what the history holds
cache_key_with_history(history, prompt) ==
    IF Len(history) > CACHE_HISTORY_THRESHOLD THEN None
    ELSE Some(hash(prompt) + Len(history))

\* a faulty cache_key: the key does not depend on the history length
cache_key_any_length(history, prompt) == Some(hash(prompt))

cache_key(history, prompt) ==
    IF Len(history) > CACHE_HISTORY_THRESHOLD THEN None ELSE Some(hash(prompt))

get_cached_response(history, cache, prompt) ==
    LET key == cache_key(history, prompt)
    IN  IF TruthyInt(key) THEN DictGet(cache, key[1]) ELSE None

\* a faulty cache_response: stores without evicting
cache_response_no_eviction(history, cache, prompt, response) ==
    LET key == cache_key(history, prompt)
    IN  IF TruthyInt(key) THEN DictSet(cache, key[1], response) ELSE cache

cache_response(history, cache, prompt, response) ==
    LET key == cache_key(history, prompt)
    IN  IF TruthyInt(key)
        THEN DictSet(IF Len(cache) >= MAX_RESPONSE_CACHE_SIZE
                     THEN DictPopFirst(cache) ELSE cache,
                     key[1], response)
        ELSE cache

\* a faulty add_to_history: cuts the newest turn off a full history
add_to_history_keeps_oldest(history, role, content) ==
    LET appended == Append(history, Message(role, content))
    IN  IF Len(appended) > max_messages
        THEN SubSeq(appended, 1, max_messages)
        ELSE appended

\* a faulty add_to_history: appends without cutting the history back
add_to_history_uncapped(history, role, content) ==
    Append(history, Message(role, content))

add_to_history(history, role, content) ==
    LET appended == Append(history, Message(role, content))
    IN  IF Len(appended) > max_messages
        THEN SubSeq(appended, Len(appended) - max_messages + 1, Len(appended))
        ELSE appended

\* a faulty clear_history: keeps the first turn
clear_history_keeps_first(history) ==
    IF history = <<>> THEN <<>> ELSE <<history[1]>>

clear_history(history) == <<>>

\* a faulty rollback: leaves the user turn of the failed attempt in place
rollback_keeps_turn(history) == history

\* The except-branch of the think_with_* methods: drop a trailing user turn.
rollback(history) ==
    IF history # <<>> /\ history[Len(history)].role = "user"
    THEN SubSeq(history, 1, Len(history) - 1)
    ELSE history

-----------------------------------------------------------------------------
(* Brain: the single-provider methods.  Each returns a frame:              *)
(*   self    the object's fields after the call                            *)
(*   result  the Optional[LLMResponse] returned                            *)
(*   calls   the provider API calls made, in order, with their outcomes    *)
(*   lookup  Some(len(history)) at the cache lookup, None if none was made *)
(*   store   Some(len(history)) at the _cache_response call, None if none  *)

Frame(self, result, calls, lookup, store) ==
    [self |-> self, result |-> result, calls |-> calls,
     lookup |-> lookup, store |-> store]

Call(provider, out) == [provider |-> provider, out |-> out]

\* a faulty think_with_openai: a cache hit is returned without recording the
\* exchange in the history
think_with_openai_silent_hit(self, prompt, out) ==
    IF ~self.openai_client THEN Frame(self, None, <<>>, None, None)
    ELSE
    LET h0 == self.conversation_history
        cached == get_cached_response(h0, self.response_cache, prompt)
    IN  IF TruthyStr(cached)
        THEN Frame(self,
                   Some(LLMResponse(cached[1], OPENAI, PRIMARY_MODEL, 0, TRUE)),
                   <<>>, Some(Len(h0)), None)
        ELSE
        LET h1 == add_to_history(h0, "user", prompt)
        IN  IF out = ERROR
            THEN Frame([self EXCEPT !.conversation_history = rollback(h1)],
                       None, <<Call(OPENAI, out)>>, Some(Len(h0)), None)
            ELSE
            LET h2 == add_to_history(h1, "assistant", out)
            IN  Frame([self EXCEPT
                          !.conversation_history = h2,
                          !.response_cache =
                              cache_response(h2, self.response_cache, prompt, out)],
                      Some(LLMResponse(out, OPENAI, PRIMARY_MODEL, UsageTokens, FALSE)),
                      <<Call(OPENAI, out)>>, Some(Len(h0)), Some(Len(h2)))

think_with_openai(self, prompt, out) ==
    IF ~self.openai_client THEN Frame(self, None, <<>>, None, None)
    ELSE
    LET h0 == self.conversation_history
        cached == get_cached_response(h0, self.response_cache, prompt)
    IN  IF TruthyStr(cached)
        THEN Frame([self EXCEPT !.conversation_history =
                        add_to_history(add_to_history(h0, "user", prompt),
                                       "assistant", cached[1])],
                   Some(LLMResponse(cached[1], OPENAI, PRIMARY_MODEL, 0, TRUE)),
                   <<>>, Some(Len(h0)), None)
        ELSE
        LET h1 == add_to_history(h0, "user", prompt)
        IN  IF out = ERROR
            THEN Frame([self EXCEPT !.conversation_history = rollback(h1)],
                       None, <<Call(OPENAI, out)>>, Some(Len(h0)), None)
            ELSE
            LET h2 == add_to_history(h1, "assistant", out)
            IN  Frame([self EXCEPT
                          !.conversation_history = h2,
                          !.response_cache =
                              cache_response(h2, self.response_cache, prompt, out)],
                      Some(LLMResponse(out, OPENAI, PRIMARY_MODEL, UsageTokens, FALSE)),
                      <<Call(OPENAI, out)>>, Some(Len(h0)), Some(Len(h2)))

think_with_claude(self, prompt, out) ==
    IF ~self.anthropic_client THEN Frame(self, None, <<>>, None, None)
    ELSE
    LET h1 == add_to_history(self.conversation_history, "user", prompt)
    IN  IF out = ERROR
        THEN Frame([self EXCEPT !.conversation_history = rollback(h1)],
                   None, <<Call(ANTHROPIC, out)>>, None, None)
        ELSE Frame([self EXCEPT !.conversation_history =
                        add_to_history(h1, "assistant", out)],
                   Some(LLMResponse(out, ANTHROPIC, CLAUDE_MODEL, UsageTokens, FALSE)),
                   <<Call(ANTHROPIC, out)>>, None, None)

think_with_gemini(self, prompt, out) ==
    IF ~self.poe_available THEN Frame(self, None, <<>>, None, None)
    ELSE
    IF out = IMPORT_ERROR
    THEN Frame(self, None, <<Call(POE, out)>>, None, None)
    ELSE
    LET h1 == add_to_history(self.conversation_history, "user", prompt)
    IN  IF out = ERROR
        THEN Frame([self EXCEPT !.conversation_history = rollback(h1)],
                   None, <<Call(POE, out)>>, None, None)
        ELSE Frame([self EXCEPT !.conversation_history =
                        add_to_history(h1, "assistant", out)],
                   Some(LLMResponse(out, POE, GEMINI_MODEL, 0, FALSE)),
                   <<Call(POE, out)>>, None, None)

\* A later attempt of the same think call: its frame, with the calls and the
\* cache accesses of the attempts before it kept.
After(first, next) ==
    [next EXCEPT !.calls = first.calls \o next.calls,
                 !.lookup = first.lookup, !.store = first.store]

\* a faulty think: gives up after the second provider
think_gives_up_early(self, prompt, provider, outs) ==
    IF provider = Some(ANTHROPIC) THEN think_with_claude(self, prompt, outs[ANTHROPIC])
    ELSE IF provider = Some(POE) THEN think_with_gemini(self, prompt, outs[POE])
    ELSE IF provider = Some(OPENAI) THEN think_with_openai(self, prompt, outs[OPENAI])
    ELSE
    LET r1 == think_with_openai(self, prompt, outs[OPENAI])
    IN  IF TruthyObj(r1.result) THEN r1
        ELSE After(r1, think_with_claude(r1.self, prompt, outs[ANTHROPIC]))

\* a faulty think: tries Anthropic before OpenAI
think_claude_first(self, prompt, provider, outs) ==
    IF provider = Some(ANTHROPIC) THEN think_with_claude(self, prompt, outs[ANTHROPIC])
    ELSE IF provider = Some(POE) THEN think_with_gemini(self, prompt, outs[POE])
    ELSE IF provider = Some(OPENAI) THEN think_with_openai(self, prompt, outs[OPENAI])
    ELSE
    LET r1 == think_with_claude(self, prompt, outs[ANTHROPIC])
    IN  IF TruthyObj(r1.result) THEN r1
        ELSE
        LET r2 == After(r1, think_with_openai(r1.self, prompt, outs[OPENAI]))
        IN  IF TruthyObj(r2.result) THEN r2
            ELSE [After(r2, think_with_gemini(r2.self, prompt, outs[POE]))
                     EXCEPT !.lookup = r2.lookup, !.store = r2.store]

\* a faulty think: falls back through the providers whatever the preference
think_ignores_preference(self, prompt, provider, outs) ==
    LET r1 == think_with_openai(self, prompt, outs[OPENAI])
    IN  IF TruthyObj(r1.result) THEN r1
        ELSE
        LET r2 == After(r1, think_with_claude(r1.self, prompt, outs[ANTHROPIC]))
        IN  IF TruthyObj(r2.result) THEN r2
            ELSE After(r2, think_with_gemini(r2.self, prompt, outs[POE]))

\* provider is the Optional[Provider] preference; outs[p] is what provider p's
\* API does if it is called.
think(self, prompt, provider, outs) ==
    IF provider = Some(ANTHROPIC) THEN think_with_claude(self, prompt, outs[ANTHROPIC])
    ELSE IF provider = Some(POE) THEN think_with_gemini(self, prompt, outs[POE])
    ELSE IF provider = Some(OPENAI) THEN think_with_openai(self, prompt, outs[OPENAI])
    ELSE
    LET r1 == think_with_openai(self, prompt, outs[OPENAI])
    IN  IF TruthyObj(r1.result) THEN r1
        ELSE
        LET r2 == After(r1, think_with_claude(r1.self, prompt, outs[ANTHROPIC]))
        IN  IF TruthyObj(r2.result) THEN r2
            ELSE After(r2, think_with_gemini(r2.self, prompt, outs[POE]))

-----------------------------------------------------------------------------
(* What a caller observes of a public call                                 *)

Return(op, prompt, provider, frame, raised, pre) ==
    [op |-> op, prompt |-> prompt, provider |-> provider,
     result |-> frame.result, raised |-> raised, calls |-> frame.calls,
     lookup |-> frame.lookup, store |-> frame.store,
     pre_history |-> pre.conversation_history,
     pre_cache |-> pre.response_cache,
     responses |-> [p \in Provider |-> None],
     invoked |-> [p \in Provider |-> 0],
     text |-> [p \in Provider |-> ""]]

\* Of the call before the last one, the caller's view without the snapshots.
Summary(r) ==
    [op |-> r.op, prompt |-> r.prompt, provider |-> r.provider,
     result |-> r.result, raised |-> r.raised, calls |-> r.calls,
     pre_len |-> Len(r.pre_history), pre_cache_len |-> Len(r.pre_cache)]

NoFrame(self) == Frame(self, None, <<>>, None, None)

NoReturn == Return("init", "", None, NoFrame(0), FALSE,
                   [conversation_history |-> <<>>, response_cache |-> <<>>])

-----------------------------------------------------------------------------
(* trinity_mode: the frame of the call in progress.  pc[p] is where the    *)
(* worker submitted for provider p stands:                                 *)
(*   off            not submitted (provider unavailable) or no call active *)
(*   rebind         call_gpt / call_claude / call_gemini not yet started   *)
(*   lookup         think_with_openai before its cache check               *)
(*   hit_user, hit_assistant   the two appends of a cache hit              *)
(*   add_user       before add_to_history("user", prompt)                  *)
(*   call           before the provider's API call                         *)
(*   add_assistant  before add_to_history("assistant", answer)             *)
(*   cache          before _cache_response                                 *)
(*   except         in the except branch, before the rollback              *)
(*   done           the future has completed                               *)

TriIdle ==
    [active |-> FALSE, prompt |-> "", original_history |-> <<>>,
     pre_cache |-> <<>>,
     pc |-> [p \in Provider |-> "off"],
     text |-> [p \in Provider |-> ""],
     invoked |-> [p \in Provider |-> 0],
     lookup |-> None, store |-> None,
     responses |-> [p \in Provider |-> None]]

Idle == ~tri.active

Available(p) ==
    CASE p = OPENAI -> openai_client
      [] p = ANTHROPIC -> anthropic_client
      [] p = POE -> poe_available

-----------------------------------------------------------------------------
(* Initial states.  A Brain is constructed with an empty history and an    *)
(* empty cache; the provider handles follow the configured keys.  To reach *)
(* the history cap and the cache capacity the behaviours also start from   *)
(* the states earlier calls leave: a history of n turns of a past          *)
(* conversation and a cache of m answers to past prompts.                  *)

InitHistoryLens == {0, 8, 9}
InitHistoryLensAll == {0, 39}
InitHistoryLensCapped == {0, 39, 40}

PastHistory(n) ==
    [i \in 1..n |-> IF i % 2 = 1 THEN Message("user", "earlier")
                                 ELSE Message("assistant", "reply")]

PastKey(i) == 1000 + i
PastCache(m) == [i \in 1..m |-> [key |-> PastKey(i), val |-> "past"]]

\* The cache a think("ping") answered "pong" by the first provider leaves.
RememberedCache == <<[key |-> hash("ping"), val |-> "pong"]>>

InitCaches == {<<>>, PastCache(MAX_RESPONSE_CACHE_SIZE)}
InitCachesAll == InitCaches \cup {RememberedCache}

\* The threads of the application that call brain.think on the one Brain:
\* the wake-word listener thread, the threads the chat window starts per
\* message sent, and the reflection scheduler thread.  Of each thread:
\*   pc      idle, think (inside think, before the adapter numbered at),
\*           call (blocked in that adapter's API call), restore (reflection,
\*           after think returned), returned
\*   saved   the reflection's original_history
\*   result  the text of the answer think returned, None if it returned None
LISTENER == "listener"
REFLECTION == "reflection"
ChatThreads == {"chat1", "chat2"}
Threads == {LISTENER, REFLECTION} \cup ChatThreads

NoCaller ==
    [pc |-> "idle", prompt |-> "", at |-> 1, saved |-> <<>>, result |-> None]
NoCallers == [t \in Threads |-> NoCaller]

\* Memory (src/core/memory.py), as constructed: no timer, nothing pending.
\*   save_timer             self._save_timer, the index in timers of the Timer
\*   pending_profile_save   self._pending_profile_save
\*   pending_log_save       self._pending_log_save
\*   timers                 every threading.Timer created so far: armed (started,
\*                          waiting for its interval), cancelled, fired (the
\*                          interval elapsed uncancelled, _execute_pending_saves
\*                          is being called), done
\*   flush                  where the flush_saves call is
\*   marks                  marking calls the application still makes
\*   profile_writes, log_writes   successful writes of each file
NoMemory ==
    [save_timer |-> None, pending_profile_save |-> FALSE,
     pending_log_save |-> FALSE, timers |-> <<>>, flush |-> "idle", marks |-> 0,
     profile_writes |-> 0, log_writes |-> 0]

\* WakeWordListener (src/core/listener.py), as constructed.
\*   is_listening    self.is_listening
\*   stop_event      self._stop_event.is_set()
\*   listen_thread   self._listen_thread, the index in loops of the thread
\*   loops           every _listen_loop thread started so far: test (at the
\*                   while test), listen (inside recognizer.listen and
\*                   recognize_google), wake (inside the on_wake callback),
\*                   exited
\*   call, op        where the start, stop or restart call in progress is
\*   calls           calls the application still makes
NoListener ==
    [is_listening |-> FALSE, stop_event |-> FALSE, listen_thread |-> None,
     loops |-> <<>>, call |-> "idle", op |-> "", calls |-> 0]
\* ReflectionSystem (src/reflection/daily_reflection.py), as constructed.
\*   stop_event         self._stop_event.is_set()
\*   scheduler_thread   self._scheduler_thread, the index in loops of the thread
\*   loops              every _scheduler_loop thread started so far, of each:
\*                        pc     start, sleep (in time.sleep until wake),
\*                               reflect (in generate_reflection), exited
\*                        last   last_reflection_date, None or a day
\*                        today  the date the iteration read
\*                        wake   the second its time.sleep returns
\*   now                the wall clock, in seconds
\*   call, deadline     stop_scheduler waiting in join until deadline
\*   last_call          the last call made: start or stop
\*   calls              calls the application still makes
\*   reflections        per day, the generate_reflection calls made on it
\*   due                the days whose reflection time a running loop ran through
NoScheduler ==
    [stop_event |-> FALSE, scheduler_thread |-> None, loops |-> <<>>,
     now |-> 1, call |-> "idle", deadline |-> 0, last_call |-> "", calls |-> 0,
     reflections |-> [d \in 0..MaxDays |-> 0], due |-> {}]
\* KnowledgeBase (src/knowledge/knowledge_base.py) with no entries file.
\*   entries          self.entries, a dict from id to [category, tags]; an id
\*                    kb_<timestamp>_<count> is the pair <<timestamp, count>>
\*   category_index   self._category_index, per category the list of ids (the
\*                    empty list for a category that is no key)
\*   tag_index        self._tag_index, per tag the list of ids
\*   now              the wall clock, in seconds
\*   calls            calls the application still makes
Categories == {"general", "codex"}
Tags == {"a", "b"}
TagLists == {<<>>, <<"a">>, <<"b">>, <<"a", "b">>, <<"a", "a">>}

NoKnowledge ==
    [entries |-> <<>>, category_index |-> [c \in Categories |-> <<>>],
     tag_index |-> [t \in Tags |-> <<>>], now |-> 1, calls |-> 0]

InitCollaborators ==
    /\ memory = NoMemory
    /\ listener = NoListener
    /\ scheduler = NoScheduler
    /\ knowledge = NoKnowledge

InitWith(lens, caches, calls) ==
    /\ openai_client \in BOOLEAN
    /\ anthropic_client \in BOOLEAN
    /\ poe_available \in BOOLEAN
    /\ conversation_history \in {PastHistory(n) : n \in lens}
    /\ response_cache \in caches
    /\ tri = TriIdle
    /\ left = calls
    /\ ret = NoReturn
    /\ prev = Summary(NoReturn)
    /\ callers = NoCallers
    /\ InitCollaborators

InitThink == InitWith(InitHistoryLens, InitCaches, MaxOps)
InitCapped == InitWith(InitHistoryLensCapped, {<<>>}, MaxOps)
Init == InitWith(InitHistoryLensAll, InitCachesAll, MaxCalls)

-----------------------------------------------------------------------------
(* The public operations, called by one caller at a time                   *)

Returned(r) ==
    /\ prev' = Summary(ret)
    /\ ret' = r
    /\ left' = left - 1

AddToHistory(role, content) ==
    /\ Idle /\ left > 0
    /\ conversation_history' = add_to_history(conversation_history, role, content)
    /\ Returned(Return("add_to_history", content, None, NoFrame(0), FALSE, Self))
    /\ UNCHANGED <<openai_client, anthropic_client, poe_available, response_cache,
                   tri, callers, Collaborators>>

ClearHistory ==
    /\ Idle /\ left > 0
    /\ conversation_history' = clear_history(conversation_history)
    /\ Returned(Return("clear_history", "", None, NoFrame(0), FALSE, Self))
    /\ UNCHANGED <<openai_client, anthropic_client, poe_available, response_cache,
                   tri, callers, Collaborators>>

\* The outcome of a provider that is not called cannot matter: only one
\* outcome map is kept among those that differ in an uncalled provider alone.
Uncalled(calls, p) == \A i \in 1..Len(calls) : calls[i].provider # p

Think(prompt, provider, outs) ==
    /\ Idle /\ left > 0
    /\ \A p \in Provider :
           ~Available(p) \/ provider \notin {None, Some(p)} => outs[p] = ERROR
    /\ LET r == think(Self, prompt, provider, outs)
       IN  /\ \A p \in Provider : Uncalled(r.calls, p) => outs[p] = ERROR
           /\ conversation_history' = r.self.conversation_history
           /\ response_cache' = r.self.response_cache
           /\ Returned(Return("think", prompt, provider, r, FALSE, Self))
    /\ UNCHANGED <<openai_client, anthropic_client, poe_available, tri, callers,
                   Collaborators>>

Preferences == {None} \cup {Some(p) : p \in Provider}
OutcomeMaps == {o \in [Provider -> {ERROR, IMPORT_ERROR} \cup Answers] :
                   \A p \in Provider : o[p] \in Outcomes(p)}

NextThink ==
    \/ \E role \in {"user", "assistant"} : AddToHistory(role, "note")
    \/ ClearHistory
    \/ \E prompt \in Prompts, provider \in Preferences, outs \in OutcomeMaps :
           Think(prompt, provider, outs)

SpecThink == InitThink /\ [][NextThink]_vars

\* The same calls on a history at, or one turn below, the cap.
SpecCapped == InitCapped /\ [][NextThink]_vars

-----------------------------------------------------------------------------
(* trinity_mode.  The calling thread snapshots the history and submits one *)
(* worker per available provider; every worker rebinds the shared history  *)
(* to a copy of the snapshot and runs its think_with_* method on the       *)
(* shared object; the workers interleave at the granularity of one method  *)
(* call on the shared state (a rebind, an add_to_history, a cache access,  *)
(* a provider call, a rollback).                                           *)

TrinityStart(prompt) ==
    /\ Idle /\ left > 0
    /\ tri' = [TriIdle EXCEPT
                  !.active = TRUE, !.prompt = prompt,
                  !.original_history = conversation_history,
                  !.pre_cache = response_cache,
                  !.pc = [p \in Provider |-> IF Available(p) THEN "rebind" ELSE "off"]]
    /\ UNCHANGED <<openai_client, anthropic_client, poe_available,
                   conversation_history, response_cache, left, ret, prev, callers,
                   Collaborators>>

At(p, where) == tri.active /\ tri.pc[p] = where

WorkerFrame ==
    <<openai_client, anthropic_client, poe_available, left, ret, prev, callers,
      Collaborators>>

\* self.conversation_history = original_history.copy()
Rebind(p) ==
    /\ At(p, "rebind")
    /\ conversation_history' = tri.original_history
    /\ tri' = [tri EXCEPT !.pc[p] = IF p = OPENAI THEN "lookup" ELSE "add_user"]
    /\ UNCHANGED <<WorkerFrame, response_cache>>

\* think_with_openai: cached = self._get_cached_response(prompt)
Lookup ==
    /\ At(OPENAI, "lookup")
    /\ LET cached == get_cached_response(conversation_history, response_cache,
                                         tri.prompt)
       IN  tri' = [tri EXCEPT
                      !.lookup = Some(Len(conversation_history)),
                      !.text[OPENAI] = IF TruthyStr(cached) THEN cached[1] ELSE "",
                      !.pc[OPENAI] = IF TruthyStr(cached) THEN "hit_user"
                                                          ELSE "add_user"]
    /\ UNCHANGED <<WorkerFrame, conversation_history, response_cache>>

HitUser ==
    /\ At(OPENAI, "hit_user")
    /\ conversation_history' = add_to_history(conversation_history, "user", tri.prompt)
    /\ tri' = [tri EXCEPT !.pc[OPENAI] = "hit_assistant"]
    /\ UNCHANGED <<WorkerFrame, response_cache>>

HitAssistant ==
    /\ At(OPENAI, "hit_assistant")
    /\ conversation_history' =
           add_to_history(conversation_history, "assistant", tri.text[OPENAI])
    /\ tri' = [tri EXCEPT !.pc[OPENAI] = "done",
                          !.responses[OPENAI] = Some(tri.text[OPENAI])]
    /\ UNCHANGED <<WorkerFrame, response_cache>>

\* think_with_gemini: import fastapi_poe raises ImportError
ImportFails ==
    /\ At(POE, "add_user")
    /\ tri' = [tri EXCEPT !.pc[POE] = "done", !.invoked[POE] = @ + 1]
    /\ UNCHANGED <<WorkerFrame, conversation_history, response_cache>>

AddUser(p) ==
    /\ At(p, "add_user")
    /\ conversation_history' = add_to_history(conversation_history, "user", tri.prompt)
    /\ tri' = [tri EXCEPT !.pc[p] = "call"]
    /\ UNCHANGED <<WorkerFrame, response_cache>>

\* the provider's API call and the reading of its answer
ApiCall(p, out) ==
    /\ At(p, "call")
    /\ tri' = [tri EXCEPT !.invoked[p] = @ + 1,
                          !.text[p] = IF out = ERROR THEN "" ELSE out,
                          !.pc[p] = IF out = ERROR THEN "except" ELSE "add_assistant"]
    /\ UNCHANGED <<WorkerFrame, conversation_history, response_cache>>

AddAssistant(p) ==
    /\ At(p, "add_assistant")
    /\ conversation_history' =
           add_to_history(conversation_history, "assistant", tri.text[p])
    /\ tri' = IF p = OPENAI
              THEN [tri EXCEPT !.pc[p] = "cache"]
              ELSE [tri EXCEPT !.pc[p] = "done", !.responses[p] = Some(tri.text[p])]
    /\ UNCHANGED <<WorkerFrame, response_cache>>

\* think_with_openai: self._cache_response(prompt, assistant_message)
CacheStore ==
    /\ At(OPENAI, "cache")
    /\ response_cache' = cache_response(conversation_history, response_cache,
                                        tri.prompt, tri.text[OPENAI])
    /\ tri' = [tri EXCEPT !.store = Some(Len(conversation_history)),
                          !.pc[OPENAI] = "done",
                          !.responses[OPENAI] = Some(tri.text[OPENAI])]
    /\ UNCHANGED <<WorkerFrame, conversation_history>>

Except(p) ==
    /\ At(p, "except")
    /\ conversation_history' = rollback(conversation_history)
    /\ tri' = [tri EXCEPT !.pc[p] = "done"]
    /\ UNCHANGED <<WorkerFrame, response_cache>>

Worker ==
    \/ \E p \in Provider : Rebind(p)
    \/ Lookup
    \/ HitUser
    \/ HitAssistant
    \/ ImportFails
    \/ \E p \in Provider : AddUser(p)
    \/ \E p \in Provider, out \in {ERROR, "pong"} : ApiCall(p, out)
    \/ \E p \in Provider : AddAssistant(p)
    \/ CacheStore
    \/ \E p \in Provider : Except(p)

\* a faulty Joined: the calling thread goes on as soon as one worker is done
JoinedEarly == tri.active /\ \E p \in Provider : tri.pc[p] \in {"off", "done"}

\* The calling thread after the executor has shut down: every worker is done.
\* out is what the synthesis call does when it is made.
Joined == tri.active /\ \A p \in Provider : tri.pc[p] \in {"off", "done"}

\* a faulty trinity_finish: makes the synthesis call also with no response
trinity_finish_always_synthesizes(self, frame, out) ==
    LET h1 == add_to_history(frame.original_history, "user", frame.prompt)
    IN  IF ~self.openai_client \/ out = ERROR
        THEN [self |-> [self EXCEPT !.conversation_history = h1],
              result |-> None, raised |-> TRUE, calls |-> <<>>]
        ELSE [self |-> [self EXCEPT !.conversation_history =
                           add_to_history(h1, "assistant", out)],
              result |-> Some(LLMResponse(out, OPENAI, "trinity", 0, FALSE)),
              raised |-> FALSE, calls |-> <<Call(OPENAI, out)>>]

\* a faulty trinity_finish: appends to the history the workers left behind
trinity_finish_keeps_branch_turns(self, frame, out) ==
    IF \A p \in Provider : frame.responses[p] = None
    THEN [self |-> self, result |-> None, raised |-> FALSE, calls |-> <<>>]
    ELSE
    LET h1 == add_to_history(self.conversation_history, "user", frame.prompt)
    IN  IF ~self.openai_client \/ out = ERROR
        THEN [self |-> [self EXCEPT !.conversation_history = h1],
              result |-> None, raised |-> TRUE, calls |-> <<>>]
        ELSE [self |-> [self EXCEPT !.conversation_history =
                           add_to_history(h1, "assistant", out)],
              result |-> Some(LLMResponse(out, OPENAI, "trinity", 0, FALSE)),
              raised |-> FALSE, calls |-> <<Call(OPENAI, out)>>]

trinity_finish(self, frame, out) ==
    IF \A p \in Provider : frame.responses[p] = None
    THEN [self |-> self, result |-> None, raised |-> FALSE, calls |-> <<>>]
    ELSE
    LET h1 == add_to_history(frame.original_history, "user", frame.prompt)
    IN  IF ~self.openai_client
        THEN [self |-> [self EXCEPT !.conversation_history = h1],
              result |-> None, raised |-> TRUE, calls |-> <<>>]
        ELSE IF out = ERROR
        THEN [self |-> [self EXCEPT !.conversation_history = h1],
              result |-> None, raised |-> TRUE, calls |-> <<Call(OPENAI, out)>>]
        ELSE [self |-> [self EXCEPT !.conversation_history =
                           add_to_history(h1, "assistant", out)],
              result |-> Some(LLMResponse(out, OPENAI, "trinity", 0, FALSE)),
              raised |-> FALSE, calls |-> <<Call(OPENAI, out)>>]

TrinityReturn(out) ==
    /\ Joined
    /\ LET r == trinity_finish(Self, tri, out)
       IN  /\ r.calls = <<>> => out = ERROR
           /\ conversation_history' = r.self.conversation_history
           /\ Returned([Return("trinity_mode", tri.prompt, None,
                               Frame(r.self, r.result, r.calls, tri.lookup, tri.store),
                               r.raised,
                               [conversation_history |-> tri.original_history,
                                response_cache |-> tri.pre_cache])
                           EXCEPT !.responses = tri.responses,
                                  !.invoked = tri.invoked,
                                  !.text = tri.text])
    /\ tri' = TriIdle
    /\ UNCHANGED <<openai_client, anthropic_client, poe_available, response_cache,
                   callers, Collaborators>>

Next ==
    \/ NextThink
    \/ \E prompt \in Prompts : TrinityStart(prompt)
    \/ Worker
    \/ \E out \in {ERROR} \cup Answers : TrinityReturn(out)

Spec == Init /\ [][Next]_vars

-----------------------------------------------------------------------------
(* The application threads.  Each calls brain.think(prompt) with no        *)
(* provider preference and no lock; a step of a thread is what it does to  *)
(* the Brain up to its next blocking provider call.                        *)

CallerFrame ==
    <<openai_client, anthropic_client, poe_available, tri, ret, prev,
      Collaborators>>

\* every thread submits a prompt of its own
PromptOf(t) ==
    CASE t = REFLECTION -> "reflect"
      [] t = LISTENER -> "wake"
      [] t = "chat1" -> "ping"
      [] OTHER -> "hello"

\* The listener and a chat thread enter think with the shared history as it
\* is; generate_reflection first saves a copy and empties it.
Start(t) ==
    /\ Idle /\ left > 0
    /\ callers[t].pc = "idle"
    /\ left' = left - 1
    /\ callers' = [callers EXCEPT ![t] =
                      [NoCaller EXCEPT
                          !.pc = "think", !.prompt = PromptOf(t),
                          !.saved = IF t = REFLECTION THEN conversation_history
                                                      ELSE <<>>]]
    /\ conversation_history' =
           IF t = REFLECTION THEN <<>> ELSE conversation_history
    /\ UNCHANGED <<CallerFrame, response_cache>>

\* think has its result: the listener and the chat threads are done, the
\* reflection still has to put the saved history back
Finished(c, t, result) ==
    [c EXCEPT !.result = result,
              !.pc = IF t = REFLECTION THEN "restore" ELSE "returned"]

\* the adapter numbered c.at returned None: on to the next one, or out of think
Failed(c, t) ==
    IF c.at = Len(<<OPENAI, ANTHROPIC, POE>>)
    THEN Finished(c, t, None)
    ELSE [c EXCEPT !.at = @ + 1, !.pc = "think"]

\* think_with_*: unavailable, or (Gemini) the import fails
Skip(t) ==
    /\ callers[t].pc = "think"
    /\ LET p == <<OPENAI, ANTHROPIC, POE>>[callers[t].at]
       IN  ~Available(p) \/ p = POE
    /\ callers' = [callers EXCEPT ![t] = Failed(@, t)]
    /\ UNCHANGED <<CallerFrame, left, conversation_history, response_cache>>

\* think_with_openai: the cache holds an answer
Hit(t) ==
    /\ callers[t].pc = "think"
    /\ <<OPENAI, ANTHROPIC, POE>>[callers[t].at] = OPENAI /\ openai_client
    /\ LET cached == get_cached_response(conversation_history, response_cache,
                                         callers[t].prompt)
       IN  /\ TruthyStr(cached)
           /\ conversation_history' =
                  add_to_history(add_to_history(conversation_history, "user",
                                                callers[t].prompt),
                                 "assistant", cached[1])
           /\ callers' = [callers EXCEPT ![t] = Finished(@, t, cached)]
    /\ UNCHANGED <<CallerFrame, left, response_cache>>

\* think_with_*: the user turn is appended and the provider is called
Ask(t) ==
    /\ callers[t].pc = "think"
    /\ LET p == <<OPENAI, ANTHROPIC, POE>>[callers[t].at]
       IN  /\ Available(p)
           /\ p = OPENAI =>
                  ~TruthyStr(get_cached_response(conversation_history,
                                                 response_cache, callers[t].prompt))
    /\ conversation_history' =
           add_to_history(conversation_history, "user", callers[t].prompt)
    /\ callers' = [callers EXCEPT ![t].pc = "call"]
    /\ UNCHANGED <<CallerFrame, left, response_cache>>

\* the provider call raises: the except branch
Raise(t) ==
    /\ callers[t].pc = "call"
    /\ conversation_history' = rollback(conversation_history)
    /\ callers' = [callers EXCEPT ![t] = Failed(@, t)]
    /\ UNCHANGED <<CallerFrame, left, response_cache>>

\* the provider call answers
Answer(t, out) ==
    /\ callers[t].pc = "call"
    /\ LET p == <<OPENAI, ANTHROPIC, POE>>[callers[t].at]
           h2 == add_to_history(conversation_history, "assistant", out)
       IN  /\ conversation_history' = h2
           /\ response_cache' =
                  IF p = OPENAI
                  THEN cache_response(h2, response_cache, callers[t].prompt, out)
                  ELSE response_cache
    /\ callers' = [callers EXCEPT ![t] = Finished(@, t, Some(out))]
    /\ UNCHANGED <<CallerFrame, left>>

\* generate_reflection: self.brain.conversation_history = original_history
Restore ==
    /\ callers[REFLECTION].pc = "restore"
    /\ conversation_history' = callers[REFLECTION].saved
    /\ callers' = [callers EXCEPT ![REFLECTION].pc = "returned"]
    /\ UNCHANGED <<CallerFrame, left, response_cache>>

NextThreads ==
    \/ \E t \in Threads : Start(t)
    \/ \E t \in Threads : Skip(t)
    \/ \E t \in Threads : Hit(t)
    \/ \E t \in Threads : Ask(t)
    \/ \E t \in Threads : Raise(t)
    \/ \E t \in Threads : Answer(t, "pong")
    \/ Restore

InitThreads == InitWith({0}, {<<>>, RememberedCache}, MaxStarts)
SpecThreads == InitThreads /\ [][NextThreads]_vars

-----------------------------------------------------------------------------
(* The collaborators are modelled apart from the Brain: in their           *)
(* specifications the Brain is not configured and never called.            *)

BrainUnused ==
    /\ openai_client = FALSE
    /\ anthropic_client = FALSE
    /\ poe_available = FALSE
    /\ conversation_history = <<>>
    /\ response_cache = <<>>
    /\ tri = TriIdle
    /\ left = 0
    /\ ret = NoReturn
    /\ prev = Summary(NoReturn)
    /\ callers = NoCallers

-----------------------------------------------------------------------------
(* Memory (src/core/memory.py): the debounced save.  The marking calls and *)
(* _execute_pending_saves hold self._save_lock for their whole body, so    *)
(* each is one step; flush_saves touches self._save_timer outside the lock *)
(* and is one step per access.  A threading.Timer calls its function when  *)
(* its interval has elapsed and it was not cancelled before; cancel() on a *)
(* timer that is already calling its function has no effect.              *)

\* threading.Timer.cancel()
cancel(timers, i) ==
    [timers EXCEPT ![i] = IF @ = "armed" THEN "cancelled" ELSE @]

\* Memory._schedule_save
schedule_save(self) ==
    LET timers == IF self.save_timer # None
                  THEN cancel(self.timers, self.save_timer[1])
                  ELSE self.timers
    IN  [self EXCEPT !.timers = Append(timers, "armed"),
                     !.save_timer = Some(Len(timers) + 1)]

\* Memory._execute_pending_saves; profile_ok and log_ok tell whether the
\* write of each file succeeds (open or json.dump may raise)
execute_pending_saves(self, profile_ok, log_ok) ==
    LET profile == self.pending_profile_save /\ profile_ok
        log == self.pending_log_save /\ log_ok
    IN  [self EXCEPT
            !.pending_profile_save = IF profile THEN FALSE ELSE @,
            !.profile_writes = IF profile THEN @ + 1 ELSE @,
            !.pending_log_save = IF log THEN FALSE ELSE @,
            !.log_writes = IF log THEN @ + 1 ELSE @,
            !.save_timer = None]

MemoryFrame == <<BrainState, listener, scheduler, knowledge>>

\* Memory._save_user_profile
SaveUserProfile ==
    /\ memory.marks > 0
    /\ memory' = [schedule_save([memory EXCEPT !.pending_profile_save = TRUE])
                     EXCEPT !.marks = @ - 1]
    /\ UNCHANGED MemoryFrame

\* Memory._save_daily_log
SaveDailyLog ==
    /\ memory.marks > 0
    /\ memory' = [schedule_save([memory EXCEPT !.pending_log_save = TRUE])
                     EXCEPT !.marks = @ - 1]
    /\ UNCHANGED MemoryFrame

\* a timer's interval elapses before it is cancelled
TimerFires(i) ==
    /\ memory.timers[i] = "armed"
    /\ memory' = [memory EXCEPT !.timers[i] = "fired"]
    /\ UNCHANGED MemoryFrame

\* the outcome of a write that is not attempted cannot matter
Attempted(profile_ok, log_ok) ==
    /\ ~memory.pending_profile_save => profile_ok
    /\ ~memory.pending_log_save => log_ok

\* the fired timer's thread runs _execute_pending_saves
TimerRuns(i, profile_ok, log_ok) ==
    /\ memory.timers[i] = "fired"
    /\ Attempted(profile_ok, log_ok)
    /\ memory' = [execute_pending_saves(memory, profile_ok, log_ok)
                     EXCEPT !.timers[i] = "done"]
    /\ UNCHANGED MemoryFrame

\* flush_saves: if self._save_timer is not None
FlushSaves ==
    /\ memory.flush = "idle"
    /\ memory' = [memory EXCEPT
                     !.flush = IF memory.save_timer # None THEN "cancel"
                               ELSE "execute"]
    /\ UNCHANGED MemoryFrame

\* flush_saves: self._save_timer.cancel(), an AttributeError if the timer
\* ran to its end since the test
FlushCancel ==
    /\ memory.flush = "cancel"
    /\ memory' = IF memory.save_timer = None
                 THEN [memory EXCEPT !.flush = "raised"]
                 ELSE [memory EXCEPT
                          !.timers = cancel(@, memory.save_timer[1]),
                          !.flush = "clear"]
    /\ UNCHANGED MemoryFrame

\* flush_saves: self._save_timer = None
FlushClear ==
    /\ memory.flush = "clear"
    /\ memory' = [memory EXCEPT !.save_timer = None, !.flush = "execute"]
    /\ UNCHANGED MemoryFrame

\* flush_saves: self._execute_pending_saves()
FlushExecute(profile_ok, log_ok) ==
    /\ memory.flush = "execute"
    /\ Attempted(profile_ok, log_ok)
    /\ memory' = [execute_pending_saves(memory, profile_ok, log_ok)
                     EXCEPT !.flush = "returned"]
    /\ UNCHANGED MemoryFrame

NextMemory ==
    \/ SaveUserProfile
    \/ SaveDailyLog
    \/ \E i \in 1..Len(memory.timers) : TimerFires(i)
    \/ \E i \in 1..Len(memory.timers), profile_ok, log_ok \in BOOLEAN :
           TimerRuns(i, profile_ok, log_ok)
    \/ FlushSaves
    \/ FlushCancel
    \/ FlushClear
    \/ \E profile_ok, log_ok \in BOOLEAN : FlushExecute(profile_ok, log_ok)

InitMemory ==
    /\ BrainUnused
    /\ memory = [NoMemory EXCEPT !.marks = MaxMarks]
    /\ listener = NoListener
    /\ scheduler = NoScheduler
    /\ knowledge = NoKnowledge

SpecMemory == InitMemory /\ [][NextMemory]_vars

-----------------------------------------------------------------------------
(* WakeWordListener (src/core/listener.py).  start, stop and restart are   *)
(* called by one thread, one call at a time; every listen loop runs in a   *)
(* thread of its own.  One iteration of a loop blocks in recognizer.listen *)
(* (up to 5 s of silence, 10 s of phrase), in recognize_google and in the  *)
(* on_wake callback, each longer than the 3 s stop waits in join.          *)

ListenerFrame == <<BrainState, memory, scheduler, knowledge>>

\* WakeWordListener.start, when not listening
start(self) ==
    [self EXCEPT !.stop_event = FALSE,
                 !.loops = Append(@, "test"),
                 !.listen_thread = Some(Len(self.loops) + 1),
                 !.is_listening = TRUE]

\* listener.start()
ListenerStart ==
    /\ listener.call = "idle" /\ listener.calls > 0
    /\ listener' = [(IF listener.is_listening THEN listener ELSE start(listener))
                       EXCEPT !.calls = @ - 1]
    /\ UNCHANGED ListenerFrame

\* listener.stop(), or the stop() that restart() begins with: return at once
\* if not listening, else set the stop event and wait in join
ListenerStop(op) ==
    /\ listener.call = "idle" /\ listener.calls > 0
    /\ listener' =
           IF listener.is_listening
           THEN [listener EXCEPT !.stop_event = TRUE, !.call = "join",
                                 !.op = op, !.calls = @ - 1]
           ELSE [listener EXCEPT !.call = IF op = "restart" THEN "sleep" ELSE "idle",
                                 !.op = op, !.calls = @ - 1]
    /\ UNCHANGED ListenerFrame

\* join(timeout=3) returns: the loop thread has exited, or three seconds
\* passed with the thread still blocked inside its iteration
ListenerJoined ==
    /\ listener.call = "join"
    /\ listener.loops[listener.listen_thread[1]] \in {"exited", "listen", "wake"}
    /\ listener' = [listener EXCEPT
                       !.is_listening = FALSE,
                       !.call = IF listener.op = "restart" THEN "sleep" ELSE "idle"]
    /\ UNCHANGED ListenerFrame

\* restart(): time.sleep(0.5), _calibrate_microphone(), start()
ListenerRestarted ==
    /\ listener.call = "sleep"
    /\ listener' = [start(listener) EXCEPT !.call = "idle"]
    /\ UNCHANGED ListenerFrame

\* restart(): _calibrate_microphone() enters the microphone while a loop
\* that outlived the join is inside it, and raises
ListenerRestartRaises ==
    /\ listener.call = "sleep"
    /\ \E i \in 1..Len(listener.loops) : listener.loops[i] = "listen"
    /\ listener' = [listener EXCEPT !.call = "idle"]
    /\ UNCHANGED ListenerFrame

\* _listen_loop: while not self._stop_event.is_set()
LoopTest(i) ==
    /\ listener.loops[i] = "test"
    /\ listener' = [listener EXCEPT
                       !.loops[i] = IF listener.stop_event THEN "exited" ELSE "listen"]
    /\ UNCHANGED ListenerFrame

\* _listen_loop: listen and recognize_google return; with a wake word in
\* the text the loop calls self.on_wake(text)
LoopHears(i, wake_word) ==
    /\ listener.loops[i] = "listen"
    /\ listener' = [listener EXCEPT !.loops[i] = IF wake_word THEN "wake" ELSE "test"]
    /\ UNCHANGED ListenerFrame

\* the on_wake callback returns
LoopWoke(i) ==
    /\ listener.loops[i] = "wake"
    /\ listener' = [listener EXCEPT !.loops[i] = "test"]
    /\ UNCHANGED ListenerFrame

NextListener ==
    \/ ListenerStart
    \/ \E op \in {"stop", "restart"} : ListenerStop(op)
    \/ ListenerJoined
    \/ ListenerRestarted
    \/ ListenerRestartRaises
    \/ \E i \in 1..Len(listener.loops) : LoopTest(i)
    \/ \E i \in 1..Len(listener.loops), wake_word \in BOOLEAN : LoopHears(i, wake_word)
    \/ \E i \in 1..Len(listener.loops) : LoopWoke(i)

InitListener ==
    /\ BrainUnused
    /\ memory = NoMemory
    /\ listener = [NoListener EXCEPT !.calls = MaxListenerCalls]
    /\ scheduler = NoScheduler
    /\ knowledge = NoKnowledge

SpecListener == InitListener /\ [][NextListener]_vars

-----------------------------------------------------------------------------
(* ReflectionSystem's scheduler (src/reflection/daily_reflection.py).      *)
(* start_scheduler and stop_scheduler are called by one thread; every      *)
(* scheduler loop runs in a thread of its own.  Time is the wall clock in  *)
(* seconds: statements take no time, time.sleep(10) takes ten seconds,     *)
(* join(timeout=2) at most two, generate_reflection any time.              *)

SchedulerFrame == <<BrainState, memory, listener, knowledge>>

\* date.today()
DayOf(now) == now \div DayLength

\* ReflectionSystem._should_reflect_now: hour, minute and second of now all
\* equal the configured ones
should_reflect_now(now) == now % DayLength = REFLECTION_TIME

\* self._scheduler_thread and self._scheduler_thread.is_alive()
is_alive(self) ==
    /\ self.scheduler_thread # None
    /\ self.loops[self.scheduler_thread[1]].pc # "exited"

\* ReflectionSystem.start_scheduler
StartScheduler ==
    /\ scheduler.call = "idle" /\ scheduler.calls > 0
    /\ scheduler' =
           [(IF is_alive(scheduler)
             THEN scheduler
             ELSE [scheduler EXCEPT
                      !.stop_event = FALSE,
                      !.loops = Append(@, [pc |-> "start", last |-> None,
                                           today |-> 0, wake |-> 0]),
                      !.scheduler_thread = Some(Len(scheduler.loops) + 1)])
               EXCEPT !.calls = @ - 1, !.last_call = "start"]
    /\ UNCHANGED SchedulerFrame

\* ReflectionSystem.stop_scheduler: set the stop event, wait in join
StopScheduler ==
    /\ scheduler.call = "idle" /\ scheduler.calls > 0
    /\ scheduler' = [scheduler EXCEPT
                        !.stop_event = TRUE,
                        !.call = IF scheduler.scheduler_thread # None
                                 THEN "join" ELSE "idle",
                        !.deadline = scheduler.now + SCHEDULER_JOIN_TIMEOUT,
                        !.calls = @ - 1, !.last_call = "stop"]
    /\ UNCHANGED SchedulerFrame

\* join(timeout=2) returns: the thread has exited or the two seconds passed
SchedulerJoined ==
    /\ scheduler.call = "join"
    /\ ~is_alive(scheduler) \/ scheduler.now >= scheduler.deadline
    /\ scheduler' = [scheduler EXCEPT !.call = "idle"]
    /\ UNCHANGED SchedulerFrame

\* a loop is at its while test: just started, or its sleep is over
AtTest(self, i) ==
    \/ self.loops[i].pc = "start"
    \/ self.loops[i].pc = "sleep" /\ self.loops[i].wake <= self.now

\* _scheduler_loop, one iteration up to generate_reflection or time.sleep
SchedulerPolls(i) ==
    /\ AtTest(scheduler, i)
    /\ LET today == DayOf(scheduler.now)
       IN  scheduler' =
               IF scheduler.stop_event
               THEN [scheduler EXCEPT !.loops[i].pc = "exited"]
               ELSE IF scheduler.loops[i].last # Some(today)
                       /\ should_reflect_now(scheduler.now)
               THEN [scheduler EXCEPT !.loops[i].pc = "reflect",
                                      !.loops[i].today = today,
                                      !.reflections[today] = @ + 1]
               ELSE [scheduler EXCEPT !.loops[i].pc = "sleep",
                                      !.loops[i].today = today,
                                      !.loops[i].wake = scheduler.now + SCHEDULER_SLEEP]
    /\ UNCHANGED SchedulerFrame

\* generate_reflection returns: last_reflection_date = today, time.sleep(10)
SchedulerReflected(i) ==
    /\ scheduler.loops[i].pc = "reflect"
    /\ scheduler' = [scheduler EXCEPT
                        !.loops[i].pc = "sleep",
                        !.loops[i].last = Some(scheduler.loops[i].today),
                        !.loops[i].wake = scheduler.now + SCHEDULER_SLEEP]
    /\ UNCHANGED SchedulerFrame

\* the scheduler loops that are running and not told to stop
Scheduling(self) ==
    {i \in 1..Len(self.loops) : self.loops[i].pc # "exited" /\ ~self.stop_event}

\* a second passes: nothing that takes no time is left to do in it
Tick ==
    /\ scheduler.now < MaxDays * DayLength
    /\ \A i \in 1..Len(scheduler.loops) : ~AtTest(scheduler, i)
    /\ scheduler.call = "join" =>
           is_alive(scheduler) /\ scheduler.now < scheduler.deadline
    /\ scheduler' = [scheduler EXCEPT
                        !.now = @ + 1,
                        !.due = IF should_reflect_now(scheduler.now)
                                   /\ Scheduling(scheduler) # {}
                                THEN @ \cup {DayOf(scheduler.now)} ELSE @]
    /\ UNCHANGED SchedulerFrame

NextScheduler ==
    \/ StartScheduler
    \/ StopScheduler
    \/ SchedulerJoined
    \/ \E i \in 1..Len(scheduler.loops) : SchedulerPolls(i)
    \/ \E i \in 1..Len(scheduler.loops) : SchedulerReflected(i)
    \/ Tick

InitScheduler ==
    /\ BrainUnused
    /\ memory = NoMemory
    /\ listener = NoListener
    /\ scheduler = [NoScheduler EXCEPT !.calls = MaxSchedulerCalls]
    /\ knowledge = NoKnowledge

SpecScheduler == InitScheduler /\ [][NextScheduler]_vars

-----------------------------------------------------------------------------
(* KnowledgeBase (src/knowledge/knowledge_base.py): the entries and the    *)
(* category and tag indexes, called by one thread.                         *)

KnowledgeFrame == <<BrainState, memory, listener, scheduler>>

\* list.remove(x): the first occurrence goes; ValueError, caught by the
\* caller, when there is none
Remove(list, x) ==
    IF \E i \in 1..Len(list) : list[i] = x
    THEN LET i == CHOOSE i \in 1..Len(list) :
                      list[i] = x /\ \A j \in 1..(i - 1) : list[j] # x
         IN  SubSeq(list, 1, i - 1) \o SubSeq(list, i + 1, Len(list))
    ELSE list

\* for tag in tags: self._tag_index[tag].append(entry_id)
RECURSIVE AppendTags(_, _, _)
AppendTags(index, tags, entry_id) ==
    IF tags = <<>> THEN index
    ELSE AppendTags([index EXCEPT ![Head(tags)] = Append(@, entry_id)],
                    Tail(tags), entry_id)

\* for tag in entry.tags: self._tag_index[tag].remove(entry_id)
RECURSIVE RemoveTags(_, _, _)
RemoveTags(index, tags, entry_id) ==
    IF tags = <<>> THEN index
    ELSE RemoveTags([index EXCEPT ![Head(tags)] = Remove(@, entry_id)],
                    Tail(tags), entry_id)

\* KnowledgeBase._rebuild_indexes, entry by entry in dict order
RECURSIVE rebuild_indexes(_, _)
rebuild_indexes(self, todo) ==
    IF todo = <<>> THEN self
    ELSE LET e == Head(todo)
         IN  rebuild_indexes(
                 [self EXCEPT
                     !.category_index[e.val.category] = Append(@, e.key),
                     !.tag_index = AppendTags(@, e.val.tags, e.key)],
                 Tail(todo))

\* KnowledgeBase._load_entries
load_entries(self, data) ==
    rebuild_indexes([self EXCEPT !.entries = data,
                                 !.category_index = [c \in Categories |-> <<>>],
                                 !.tag_index = [t \in Tags |-> <<>>]],
                    data)

\* KnowledgeBase._generate_id
generate_id(self) == <<self.now, Len(self.entries)>>

\* KnowledgeBase.add_entry
add_entry(self, category, tags) ==
    LET entry_id == generate_id(self)
    IN  [self EXCEPT
            !.entries = DictSet(@, entry_id, [category |-> category, tags |-> tags]),
            !.category_index[category] = Append(@, entry_id),
            !.tag_index = AppendTags(@, tags, entry_id)]

\* KnowledgeBase.update_entry with the keyword arguments category and tags,
\* each None when not given
update_entry(self, entry_id, category, tags) ==
    IF entry_id \notin DictKeys(self.entries) THEN self
    ELSE LET entry == DictGet(self.entries, entry_id)[1]
         IN  [self EXCEPT
                 !.entries = DictSet(@, entry_id,
                     [category |-> IF category = None THEN entry.category
                                   ELSE category[1],
                      tags |-> IF tags = None THEN entry.tags ELSE tags[1]])]

\* del d[k]
DictDel(d, k) ==
    LET i == CHOOSE i \in 1..Len(d) : d[i].key = k
    IN  SubSeq(d, 1, i - 1) \o SubSeq(d, i + 1, Len(d))

\* KnowledgeBase.delete_entry
delete_entry(self, entry_id) ==
    IF entry_id \notin DictKeys(self.entries) THEN self
    ELSE LET entry == DictGet(self.entries, entry_id)[1]
         IN  [self EXCEPT
                 !.category_index[entry.category] = Remove(@, entry_id),
                 !.tag_index = RemoveTags(@, entry.tags, entry_id),
                 !.entries = DictDel(@, entry_id)]

\* an id that is no key of the entries
MissingId == <<0, 9>>

Called(self) == [self EXCEPT !.calls = @ - 1]

AddEntry(category, tags) ==
    /\ knowledge.calls > 0
    /\ knowledge' = Called(add_entry(knowledge, category, tags))
    /\ UNCHANGED KnowledgeFrame

UpdateEntry(entry_id, category, tags) ==
    /\ knowledge.calls > 0
    /\ knowledge' = Called(update_entry(knowledge, entry_id, category, tags))
    /\ UNCHANGED KnowledgeFrame

DeleteEntry(entry_id) ==
    /\ knowledge.calls > 0
    /\ knowledge' = Called(delete_entry(knowledge, entry_id))
    /\ UNCHANGED KnowledgeFrame

\* a second passes
KnowledgeTick ==
    /\ knowledge.now < MaxSeconds
    /\ knowledge' = [knowledge EXCEPT !.now = @ + 1]
    /\ UNCHANGED KnowledgeFrame

NextKnowledge ==
    \/ \E category \in Categories, tags \in TagLists : AddEntry(category, tags)
    \/ \E entry_id \in DictKeys(knowledge.entries) \cup {MissingId},
          category \in {None} \cup {Some(c) : c \in Categories},
          tags \in {None} \cup {Some(l) : l \in TagLists} :
           UpdateEntry(entry_id, category, tags)
    \/ \E entry_id \in DictKeys(knowledge.entries) \cup {MissingId} :
           DeleteEntry(entry_id)
    \/ KnowledgeTick

\* the entries file at construction: absent, or one entry saved earlier
StoredEntries ==
    {<<>>, <<[key |-> <<0, 0>>, val |-> [category |-> "general", tags |-> <<"a">>]]>>}

InitKnowledge ==
    /\ BrainUnused
    /\ memory = NoMemory
    /\ listener = NoListener
    /\ scheduler = NoScheduler
    /\ knowledge \in {load_entries([NoKnowledge EXCEPT !.calls = MaxKnowledgeCalls], data) :
                         data \in StoredEntries}

SpecKnowledge == InitKnowledge /\ [][NextKnowledge]_vars

-----------------------------------------------------------------------------
(* Properties.  A public call has returned when no trinity_mode call is in *)
(* progress (Idle); ret then describes the call that returned last.        *)

Thought == Idle /\ ret.op = "think"
Answered == ret.result # None
CacheHit == Answered /\ ret.result[1].cached
Failures == {ERROR, IMPORT_ERROR}
CalledProviders == [i \in 1..Len(ret.calls) |-> ret.calls[i].provider]
Priority == <<OPENAI, ANTHROPIC, POE>>
AvailableInOrder == SelectSeq(Priority, Available)

\* the last think call reached _cache_response with a key that is not falsy
Stored ==
    /\ Thought /\ ret.store # None
    /\ ret.store[1] <= CACHE_HISTORY_THRESHOLD
    /\ hash(ret.prompt) # 0
AtCapacity == Len(ret.pre_cache) >= MAX_RESPONSE_CACHE_SIZE
Kept(entry) == \E j \in 1..Len(response_cache) : response_cache[j] = entry

\* C1: after any sequence of add_to_history, think, trinity_mode and
\* clear_history calls, the history observed once an operation has returned
\* holds at most 40 turns.
C1_HistoryAtMostMax == Idle => Len(conversation_history) <= max_messages

\* C1, witness: a call that started with 39 turns, appended a user and an assistant turn
\* and returned with the history cut back to 40
C1_Witness ==
    /\ Idle /\ ret.op \in {"think", "trinity_mode"} /\ Answered
    /\ Len(ret.pre_history) = max_messages - 1
    /\ Len(conversation_history) = max_messages
    /\ conversation_history[1] = ret.pre_history[2]

\* C2: after any sequence of think / trinity_mode / clear_history calls the
\* response cache holds at most MAX_RESPONSE_CACHE_SIZE entries.
C2_CacheAtMostMax == Len(response_cache) <= MAX_RESPONSE_CACHE_SIZE

\* C2, witness: an answer was stored under a new key while the cache was
\* full
C2_Witness ==
    /\ Idle /\ ret.op \in {"think", "trinity_mode"} /\ ret.store # None
    /\ Len(ret.pre_cache) = MAX_RESPONSE_CACHE_SIZE
    /\ response_cache # ret.pre_cache
    /\ Len(response_cache) = MAX_RESPONSE_CACHE_SIZE

\* C3: whenever _cache_response stores an answer while the cache is at
\* capacity, exactly one entry is removed, the earliest-inserted one, every
\* other pre-existing entry is kept and the cache afterwards holds exactly the
\* capacity number of entries, also when the key stored is already present.
C3_EvictsExactlyOne ==
    Stored /\ AtCapacity =>
        /\ Len(response_cache) = MAX_RESPONSE_CACHE_SIZE
        /\ DictKeys(ret.pre_cache) \ DictKeys(response_cache) = {ret.pre_cache[1].key}
        /\ \A i \in 2..Len(ret.pre_cache) :
               ret.pre_cache[i].key \in DictKeys(response_cache)

\* C3 as amended: storing at capacity removes the earliest-inserted entry and
\* keeps every other one; with a new key the cache then holds the capacity
\* number of entries, the new one last; with a key already present (and not
\* the earliest) no entry is added, so it holds one entry fewer.
C3_EvictsEarliest ==
    Stored /\ AtCapacity =>
        LET k == hash(ret.prompt)
            pre == ret.pre_cache
            new == [key |-> k, val |-> ret.result[1].text]
        IN  /\ pre[1].key # k => pre[1].key \notin DictKeys(response_cache)
            /\ \A i \in 2..Len(pre) : pre[i].key # k => Kept(pre[i])
            /\ Kept(new)
            /\ k \notin DictKeys(pre) =>
                   /\ Len(response_cache) = MAX_RESPONSE_CACHE_SIZE
                   /\ response_cache = Append(Tail(pre), new)
            /\ k \in DictKeys(pre) /\ pre[1].key # k =>
                   Len(response_cache) = MAX_RESPONSE_CACHE_SIZE - 1

\* C3, witness: an answer was stored under a new key while the cache was
\* full
C3_Witness ==
    /\ Stored /\ AtCapacity
    /\ hash(ret.prompt) \notin DictKeys(ret.pre_cache)
    /\ response_cache # ret.pre_cache

ThoughtTwice ==
    /\ Thought /\ ret.provider = None
    /\ prev.op = "think" /\ prev.provider = None /\ prev.result # None
    /\ ret.prompt = prev.prompt

\* the last call was served from the cache with the answer of the call before
ServedFromCache ==
    /\ CacheHit
    /\ ret.result[1].text = prev.result[1].text
    /\ ret.calls = <<>>

\* C5: for every pre-call history length L with 0 <= L <= 10, if think(p) is
\* called twice in a row with the same prompt and the first call succeeds,
\* the second call is a cache hit: it returns the first call's answer and
\* invokes no provider.
C5_SecondCallHits ==
    ThoughtTwice /\ prev.pre_len <= CACHE_HISTORY_THRESHOLD => ServedFromCache

\* C6: from an empty history and an empty cache with the first-priority
\* provider available, a successful think(p) with answer a leaves the cache
\* with exactly one entry, keyed from p and holding a, and an immediately
\* following think(p) returns a with no provider invoked.
C6_PingPong ==
    /\ /\ Thought /\ ret.provider = None /\ Answered /\ openai_client
       /\ ret.pre_history = <<>> /\ ret.pre_cache = <<>>
       => response_cache = <<[key |-> hash(ret.prompt), val |-> ret.result[1].text]>>
    /\ /\ ThoughtTwice /\ openai_client
       /\ prev.pre_len = 0 /\ prev.pre_cache_len = 0
       => ServedFromCache

\* C7: every successful single-provider answer think returns on a cache miss,
\* whichever provider produced it, is stored in the cache under the prompt's
\* key when the history is within the threshold; and think consults the cache
\* before routing, whichever providers are available.
C7_EveryAnswerCached ==
    /\ /\ Thought /\ Answered /\ ~CacheHit
       /\ Len(conversation_history) <= CACHE_HISTORY_THRESHOLD
       => DictGet(response_cache, hash(ret.prompt)) = Some(ret.result[1].text)
    /\ /\ Thought /\ Len(ret.pre_history) <= CACHE_HISTORY_THRESHOLD
       /\ TruthyStr(DictGet(ret.pre_cache, hash(ret.prompt)))
       => CacheHit

\* C8: think with no preference, when every available provider's call fails,
\* returns None after invoking each available provider exactly once, in the
\* order OpenAI, Anthropic, Poe/Gemini.
C8_AllFailInOrder ==
    /\ Thought /\ ret.provider = None /\ ~CacheHit
    /\ \A i \in 1..Len(ret.calls) : ret.calls[i].out \in Failures
    => ret.result = None /\ CalledProviders = AvailableInOrder

\* C8, witness: all three providers were available and each one's call
\* failed, leaving the history as long as it was
C8_Witness ==
    /\ Thought /\ ret.provider = None /\ ret.result = None
    /\ openai_client /\ anthropic_client /\ poe_available
    /\ Len(ret.calls) = 3
    /\ Len(conversation_history) = Len(ret.pre_history)

\* C9: think with no preference returns the result of the first provider in
\* priority order whose call succeeds and invokes no provider of lower
\* priority after that success.
C9_FirstSuccessWins ==
    /\ Thought /\ ret.provider = None
    /\ \E i \in 1..Len(ret.calls) : ret.calls[i].out \notin Failures
    => LET n == Len(ret.calls)
       IN  /\ \A i \in 1..(n - 1) : ret.calls[i].out \in Failures
           /\ CalledProviders = SubSeq(AvailableInOrder, 1, n)
           /\ Answered
           /\ ret.result[1].provider = ret.calls[n].provider
           /\ ret.result[1].text = ret.calls[n].out
           /\ ~ret.result[1].cached

\* C9, witness: the first provider failed, the second answered, the third
\* was available and was not called
C9_Witness ==
    /\ Thought /\ ret.provider = None
    /\ openai_client /\ anthropic_client /\ poe_available
    /\ Len(ret.calls) = 2 /\ ret.calls[1].out = ERROR /\ ret.calls[2].out = "pong"
    /\ Answered /\ ret.result[1].provider = ANTHROPIC

\* C10: in think with no preference, a provider call that completes without
\* error but yields an empty answer text counts as a failure of that attempt:
\* the next provider in priority order is tried and the empty answer is not
\* returned while a lower-priority provider is still untried.
C10_EmptyAnswerFallsBack ==
    /\ Thought /\ ret.provider = None
    => \A i \in 1..Len(ret.calls) :
           /\ ret.calls[i].out = ""
           /\ CalledProviders # AvailableInOrder
           => /\ i < Len(ret.calls)
              /\ ~(Answered /\ ret.result[1].text = "")

\* C11: think called with an explicit provider preference invokes only that
\* provider's adapter and returns its outcome, an answer or a failure; no
\* other provider is invoked during the call.
C11_OnlyPreferred ==
    Thought /\ ret.provider # None =>
        LET p == ret.provider[1]
        IN  /\ Len(ret.calls) <= 1
            /\ \A i \in 1..Len(ret.calls) : ret.calls[i].provider = p
            /\ Answered => ret.result[1].provider = p
            /\ ~Available(p) => ret.calls = <<>> /\ ~Answered
            /\ ret.calls # <<>> =>
                   IF ret.calls[1].out \in Failures
                   THEN ~Answered
                   ELSE Answered /\ ret.result[1].text = ret.calls[1].out

\* C11, witness: Anthropic was preferred and its call failed; OpenAI and Poe
\* were available and neither was invoked
C11_Witness ==
    /\ Thought /\ ret.provider = Some(ANTHROPIC)
    /\ openai_client /\ anthropic_client /\ poe_available
    /\ ret.calls = <<Call(ANTHROPIC, ERROR)>>
    /\ ~Answered

\* C12: for every pre-call history length from 0 up to the cap of 40 turns, a
\* think call in which every attempted provider fails leaves the history with
\* the length it had before the call.
C12_FailureKeepsLength ==
    Thought /\ ~Answered => Len(conversation_history) = Len(ret.pre_history)

\* the last max_messages turns of a history
LastTurns(h) ==
    IF Len(h) > max_messages THEN SubSeq(h, Len(h) - max_messages + 1, Len(h)) ELSE h

\* a history followed by one user turn and one assistant turn
Exchange(pre, prompt, answer) ==
    LastTurns(pre \o <<Message("user", prompt), Message("assistant", answer)>>)

\* C13: a think call that succeeds at the k-th provider after k-1 failed
\* attempts leaves the history equal to the pre-call history followed by
\* exactly one user turn (the prompt) and one assistant turn (the answer
\* returned), cut back to the last 40 turns; failed attempts leave no turn.
C13_SuccessAddsOneExchange ==
    Thought /\ Answered =>
        conversation_history =
            Exchange(ret.pre_history, ret.prompt, ret.result[1].text)

\* C13, witness: on a history of 40 turns the first two providers failed and
\* the third answered
C13_Witness ==
    /\ Thought /\ ret.provider = None /\ Answered
    /\ Len(ret.pre_history) = max_messages
    /\ Len(ret.calls) = 3
    /\ ret.calls[1].out = ERROR /\ ret.calls[2].out = ERROR
    /\ ret.result[1].provider = POE

-----------------------------------------------------------------------------
(* Properties of trinity_mode                                              *)

\* ret.responses is the responses dict of the call, ret.invoked[p] the number
\* of API calls worker p made and ret.text[p] the answer it read ("" if none)
TrinityReturned == Idle /\ ret.op = "trinity_mode"
Succeeded == {p \in Provider : ret.responses[p] # None}

\* the history a worker's think_with_* call should work on: the pre-call
\* history followed by its user turn
BranchHistory ==
    LastTurns(Append(tri.original_history, Message("user", tri.prompt)))

\* C14: for every combination of provider availability and provider call
\* outcomes, a failing or unavailable primary provider at the synthesis call
\* included, think and trinity_mode return a result value (an answer or a
\* failure) and no exception escapes to the caller.
C14_NoExceptionEscapes ==
    Idle /\ ret.op \in {"think", "trinity_mode"} => ~ret.raised

\* C15: trinity_mode returns a non-failure outcome whenever at least one
\* provider branch succeeds, whichever providers failed or are unavailable
\* (the primary one included); the outcome carries the answers of exactly the
\* successful branches, and a failing branch does not stop its siblings.
C15_AnswersIfAnyBranchSucceeds ==
    TrinityReturned /\ Succeeded # {} =>
        /\ Answered /\ ~ret.raised
        /\ \A p \in Provider :
               ret.responses[p] =
                   IF ret.text[p] # "" THEN Some(ret.text[p]) ELSE None

\* C16: trinity_mode returns failure (None, no exception) when no provider
\* branch succeeds, all failing or none being available, and then makes no
\* synthesis call.
C16_NoBranchNoSynthesis ==
    TrinityReturned /\ Succeeded = {} =>
        ~Answered /\ ~ret.raised /\ ret.calls = <<>>

\* C16, witness: all three providers were available, each worker called its
\* provider once and every call failed
C16_Witness ==
    /\ TrinityReturned /\ Succeeded = {}
    /\ openai_client /\ anthropic_client /\ poe_available
    /\ \A p \in Provider : ret.invoked[p] = 1
    /\ ~Answered

\* C17: for every number of available providers and every interleaving of
\* the workers, a trinity_mode call that returns an answer leaves the history
\* equal to the pre-call history followed by exactly one user turn (the
\* prompt) and one assistant turn (the synthesized answer), cut back to the
\* last 40 turns; no turn written by a worker remains.
C17_OneExchangeAfterTrinity ==
    TrinityReturned /\ Answered =>
        conversation_history =
            Exchange(ret.pre_history, ret.prompt, ret.result[1].text)

\* C17, witness: three workers answered on a history of 39 turns and the
\* synthesized answer was returned
C17_Witness ==
    /\ TrinityReturned /\ Answered
    /\ Succeeded = Provider
    /\ Len(ret.pre_history) = max_messages - 1
    /\ Len(conversation_history) = max_messages

\* C18: in every interleaving of the workers, the conversation a provider is
\* called with is exactly the pre-call history followed by one user turn
\* holding the prompt, with no turn of a sibling in it, and a worker's
\* rollback pops from that same history, never a turn a sibling appended.
C18_BranchesIsolated ==
    [][\A p \in Provider :
           (\E out \in {ERROR, "pong"} : ApiCall(p, out)) \/ Except(p)
           => conversation_history = BranchHistory]_vars

\* C19: during a trinity_mode call no worker writes the shared conversation
\* history (no rebinding, no append, no pop); only the calling thread does.
C19_WorkersNeverWrite ==
    [][Worker => UNCHANGED conversation_history]_vars

\* C20: the final history update of trinity_mode (back to the pre-call
\* history, then the user turn and the synthesized assistant turn) is made
\* only after every submitted worker has finished, and once per successful
\* call.
C20_FinalUpdateAfterJoin ==
    [][tri.active /\ ~tri'.active =>
           /\ \A p \in Provider : tri.pc[p] \in {"off", "done"}
           /\ ret'.result # None =>
                  conversation_history' =
                      Exchange(tri.original_history, tri.prompt,
                               ret'.result[1].text)]_vars

\* C20, witness: two workers were submitted, one answered and one failed,
\* and the call returned the synthesized answer
C20_Witness ==
    /\ TrinityReturned /\ Answered
    /\ Cardinality({p \in Provider : ret.invoked[p] > 0}) = 2
    /\ Cardinality(Succeeded) = 1
    /\ Len(conversation_history) = Len(ret.pre_history) + 2

\* C21: trinity_mode returns even if a worker never completes: once every
\* other worker is done and the deadline has passed, a worker still blocked
\* in its provider call is given up as failed and the calling thread goes on
\* with the answers it has.
C21_ReturnsDespiteHungBranch ==
    /\ tri.active
    /\ \A p \in Provider : tri.pc[p] \in {"off", "done", "call"}
    /\ \E p \in Provider : tri.pc[p] = "call"
    => ENABLED (\E out \in {ERROR} \cup Answers : TrinityReturn(out))

\* C22: a trinity_mode call neither reads nor writes the response cache: no
\* lookup is made, no worker's answer comes from a cache entry, and the cache
\* after the call equals the cache before it.
C22_TrinityBypassesCache ==
    TrinityReturned =>
        /\ ret.lookup = None /\ ret.store = None
        /\ \A p \in Succeeded : ret.invoked[p] > 0
        /\ response_cache = ret.pre_cache

\* C31: within one trinity_mode call each available provider is invoked at
\* most once for its branch, a failed branch not being retried, and when at
\* least one branch succeeded exactly one more generation call, the
\* synthesis call, is made to the primary provider.
C31_OneCallPerBranchOneSynthesis ==
    TrinityReturned =>
        /\ \A p \in Provider : ret.invoked[p] <= 1
        /\ Succeeded = {} => ret.calls = <<>>
        /\ Succeeded # {} =>
               Len(ret.calls) = 1 /\ ret.calls[1].provider = OPENAI

\* C32: a trinity_mode call that returns failure because no branch succeeded
\* leaves the history with the turns it had before the call, for every
\* pre-call history (a full one and one ending in a user turn included) and
\* every interleaving of the workers.
C32_FailedTrinityKeepsHistory ==
    TrinityReturned /\ Succeeded = {} /\ ~ret.raised =>
        conversation_history = ret.pre_history

-----------------------------------------------------------------------------
(* Properties of the history and the cache                                 *)

\* C23: clear_history empties the conversation history and leaves the
\* response cache, its entries and their order, unchanged.
C23_ClearKeepsCache ==
    Idle /\ ret.op = "clear_history" =>
        conversation_history = <<>> /\ response_cache = ret.pre_cache

\* C23, witness: clear_history was called on a history of several turns with
\* a full cache
C23_Witness ==
    /\ Idle /\ ret.op = "clear_history"
    /\ Len(ret.pre_history) > 1
    /\ Len(response_cache) = MAX_RESPONSE_CACHE_SIZE

NoneAvailable == \A p \in Provider : ~Available(p)

\* C24: a provider without a credential is never invoked, by think or by
\* trinity_mode; skipping it changes neither the history nor the cache; and
\* its absence alone makes the call fail only when no other provider
\* succeeds.
C24_UnavailableOnlySkipped ==
    Idle /\ ret.op \in {"think", "trinity_mode"} =>
        /\ \A i \in 1..Len(ret.calls) : Available(ret.calls[i].provider)
        /\ \A p \in Provider : ret.invoked[p] > 0 => Available(p)
        /\ NoneAvailable =>
               /\ conversation_history = ret.pre_history
               /\ response_cache = ret.pre_cache
        /\ ret.op = "think" /\ ret.provider = None /\ ~Answered =>
               \A i \in 1..Len(ret.calls) : ret.calls[i].out \in Failures
        /\ ret.op = "trinity_mode" /\ ret.calls = <<>> /\ ~Answered =>
               Succeeded = {}

\* C27: after any sequence of add_to_history calls the history holds the
\* last min(n, 40) appended turns in their order: appending to a full history
\* drops exactly the oldest turn and keeps every other one in place.
C27_AppendKeepsLastTurns ==
    Idle /\ ret.op = "add_to_history" =>
        \E role \in {"user", "assistant"} :
            conversation_history =
                LastTurns(Append(ret.pre_history, Message(role, ret.prompt)))

\* C27, witness: two turns were appended in a row to a full history
C27_Witness ==
    /\ Idle /\ ret.op = "add_to_history" /\ prev.op = "add_to_history"
    /\ prev.pre_len = max_messages
    /\ Len(ret.pre_history) = max_messages
    /\ conversation_history[max_messages - 2] = ret.pre_history[max_messages - 1]

\* C28: the cache is bypassed for a prompt exactly when the history holds
\* more than the threshold number of turns: for every prompt, the empty one
\* and any whose key is zero included, and every history of at most 10 turns,
\* the lookup consults the cache and the store writes to it.
C28_BypassOnlyBeyondThreshold ==
    /\ /\ Thought /\ ret.store # None
       /\ ret.store[1] <= CACHE_HISTORY_THRESHOLD
       => DictGet(response_cache, hash(ret.prompt)) = Some(ret.result[1].text)
    /\ /\ Thought /\ ret.lookup # None
       /\ ret.lookup[1] <= CACHE_HISTORY_THRESHOLD
       /\ TruthyStr(DictGet(ret.pre_cache, hash(ret.prompt)))
       => CacheHit

\* histories of at most the threshold number of turns, of various contents
ShortHistories ==
    {PastHistory(n) : n \in 0..CACHE_HISTORY_THRESHOLD}
        \cup {<<Message("user", "other")>>,
              <<Message("user", "ping"), Message("assistant", "pong")>>}

\* C29: the cache lookup depends on the prompt only: for any two histories
\* of at most 10 turns, whatever they hold (an emptied one included), the
\* lookup of the same prompt in the same cache gives the same result, so an
\* answer cached in one short conversation is served in another.
C29_LookupIgnoresHistory ==
    Len(conversation_history) <= CACHE_HISTORY_THRESHOLD =>
        \A p \in Prompts, h \in ShortHistories :
            get_cached_response(h, response_cache, p) =
                get_cached_response(conversation_history, response_cache, p)

\* C29, witness: an answer stored on one history was served by the lookup
\* made on a different one
C29_Witness ==
    /\ ThoughtTwice /\ ServedFromCache
    /\ prev.pre_len # Len(ret.pre_history)
    /\ Len(ret.pre_history) <= CACHE_HISTORY_THRESHOLD

\* C30: a cache hit in think appends exactly one user turn (the prompt) and
\* one assistant turn (the cached answer), returns the cached text marked as
\* cached with a token count of 0, invokes no provider and leaves the cache
\* unchanged.
C30_CacheHitEffect ==
    Thought /\ CacheHit =>
        /\ DictGet(ret.pre_cache, hash(ret.prompt)) = Some(ret.result[1].text)
        /\ conversation_history =
               Exchange(ret.pre_history, ret.prompt, ret.result[1].text)
        /\ ret.result[1].tokens_used = 0
        /\ ret.calls = <<>>
        /\ response_cache = ret.pre_cache

\* C30, witness: a think call on a history of several turns was served from
\* the cache
C30_Witness ==
    /\ Thought /\ CacheHit
    /\ Len(ret.pre_history) > 0
    /\ ret.result[1].text = "pong"

-----------------------------------------------------------------------------
(* Properties of the application threads                                   *)

InThink == {t \in Threads : callers[t].pc \in {"think", "call"}}

\* the threads whose think call has returned an answer
AnsweredThreads ==
    {t \in Threads : callers[t].pc \in {"restore", "returned"}
                     /\ callers[t].result # None}

Turns(history, role) ==
    {i \in 1..Len(history) : history[i].role = role}

HasTurn(history, turn) == \E i \in 1..Len(history) : history[i] = turn

\* C25: once a think call has returned an answer, the user turn and the
\* assistant turn it appended stay in the history until truncation or
\* clear_history removes them (neither happens here): no rollback of a failed
\* attempt and no save-and-restore by the reflection removes them, in any
\* interleaving of the calling threads.
C25_AnsweredTurnsStay ==
    [][\A t \in AnsweredThreads :
           /\ HasTurn(conversation_history, Message("user", callers[t].prompt))
              => HasTurn(conversation_history', Message("user", callers[t].prompt))
           /\ Cardinality(Turns(conversation_history', "assistant"))
                  >= Cardinality(Turns(conversation_history, "assistant"))]_vars

\* C26: across the listener thread, the chat window's per-message threads
\* and the reflection scheduler thread, at most one think call is in progress
\* at any time.
C26_OneThinkAtATime == Cardinality(InThink) <= 1

-----------------------------------------------------------------------------
(* Properties of Memory                                                    *)

\* the timers that are armed: started, not cancelled, interval not elapsed
Armed == {i \in 1..Len(memory.timers) : memory.timers[i] = "armed"}

\* the timers whose thread is calling _execute_pending_saves
Firing == {i \in 1..Len(memory.timers) : memory.timers[i] = "fired"}

Flushing == memory.flush \in {"cancel", "clear", "execute"}

\* C33: at most one save timer is armed at any time, in every interleaving
\* of marking calls, a firing timer's _execute_pending_saves and flush_saves.
C33_OneArmedTimer == Cardinality(Armed) <= 1

\* C34: a change marked for saving is written without a further marking call:
\* while an item is pending, a save that writes it is armed or running, also
\* after a write of the item failed.
C34_PendingSaveStillRuns ==
    memory.pending_profile_save \/ memory.pending_log_save =>
        Armed # {} \/ Firing # {} \/ Flushing

-----------------------------------------------------------------------------
(* Properties of WakeWordListener                                          *)

\* the listen loop threads that are running
Listening(self) == {i \in 1..Len(self.loops) : self.loops[i] # "exited"}

\* a listen loop invokes the on_wake callback in this step
InvokesOnWake ==
    \E i \in 1..Len(listener.loops) :
        listener.loops[i] = "listen" /\ listener'.loops[i] = "wake"

\* C35: for any sequence of start, stop and restart calls at most one listen
\* loop thread is running at any time, and from the return of stop to the
\* next start no listen loop invokes the on_wake callback.
C35_OneLoopSilentAfterStop ==
    [][/\ Cardinality(Listening(listener')) <= 1
       /\ ~listener.is_listening /\ listener.call # "join" => ~InvokesOnWake]_vars

-----------------------------------------------------------------------------
(* Properties of the reflection scheduler                                  *)

\* the scheduler loop threads that are running
Alive(self) == {i \in 1..Len(self.loops) : self.loops[i].pc # "exited"}

\* C36: after a start_scheduler call has returned, also one issued right
\* after stop_scheduler, a scheduler loop is running until the next
\* stop_scheduler call; and at most one scheduler loop runs at a time.
C36_StartedSchedulerRuns ==
    /\ Cardinality(Alive(scheduler)) <= 1
    /\ scheduler.last_call = "start" => Alive(scheduler) # {}

\* C37: on every day whose reflection time the running scheduler ran
\* through, generate_reflection was invoked exactly once, and on no day more
\* than once.
C37_OneReflectionPerDay ==
    /\ \A d \in scheduler.due : scheduler.reflections[d] = 1
    /\ \A d \in 0..MaxDays : scheduler.reflections[d] <= 1

-----------------------------------------------------------------------------
(* Properties of KnowledgeBase                                             *)

\* how many times x is listed in list
Occurrences(list, x) == Cardinality({i \in 1..Len(list) : list[i] = x})

\* every id that is a key of the entries or listed in an index
KnownIds(self) ==
    DictKeys(self.entries)
        \cup UNION {{self.category_index[c][i] : i \in 1..Len(self.category_index[c])} :
                       c \in Categories}
        \cup UNION {{self.tag_index[t][i] : i \in 1..Len(self.tag_index[t])} :
                       t \in Tags}

HasCategory(self, entry_id, c) ==
    /\ entry_id \in DictKeys(self.entries)
    /\ DictGet(self.entries, entry_id)[1].category = c

HasTag(self, entry_id, t) ==
    /\ entry_id \in DictKeys(self.entries)
    /\ LET tags == DictGet(self.entries, entry_id)[1].tags
       IN  \E i \in 1..Len(tags) : tags[i] = t

\* C38: after any sequence of add_entry, update_entry and delete_entry calls
\* an id is listed under category c exactly when that entry exists with
\* category c, and under tag t exactly when that entry exists and has tag t,
\* and no id is listed twice.
C38_IndexesAgree ==
    \A entry_id \in KnownIds(knowledge) :
        /\ \A c \in Categories :
               Occurrences(knowledge.category_index[c], entry_id)
                   = IF HasCategory(knowledge, entry_id, c) THEN 1 ELSE 0
        /\ \A t \in Tags :
               Occurrences(knowledge.tag_index[t], entry_id)
                   = IF HasTag(knowledge, entry_id, t) THEN 1 ELSE 0

====
